---- MODULE Spec2Model ----
(***************************************************************************)
(* Bond investment dashboard with a USDINR futures hedge (src/app.py).     *)
(*                                                                         *)
(* The dashboard is a Streamlit script: every change of an input widget    *)
(* re-runs main() from the top, which recomputes every derived figure.     *)
(* The state is the value of the input widgets of the investment           *)
(* calculator together with the locals main() computes from them.          *)
(* The model starts at the investment calculator (line 212 on); the data   *)
(* import, the sidebar filters and the charts above it are not modelled.   *)
(*                                                                         *)
(* Python floats are modelled as exact rationals [n, d] in lowest terms    *)
(* with d > 0: sums, products and quotients are the exact real results,    *)
(* so binary rounding of the floats is outside the model.                  *)
(***************************************************************************)
EXTENDS Integers, Sequences, FiniteSets, TLC

----------------------------------------------------------------------------
(* Exact arithmetic standing for Python's float operators.                 *)

Abs(x) == IF x < 0 THEN -x ELSE x

RECURSIVE GCD(_, _)
GCD(a, b) == IF b = 0 THEN a ELSE GCD(b, a % b)

\* the rational n/d in lowest terms, denominator positive (d # 0)
Rat(n, d) ==
    LET g == GCD(Abs(n), Abs(d))
        s == IF d < 0 THEN -1 ELSE 1
    IN  [n |-> (s * n) \div g, d |-> (s * d) \div g]

RatInt(k) == [n |-> k, d |-> 1]

\* a + b
RatAdd(a, b) ==
    LET g == GCD(a.d, b.d)
    IN  Rat(a.n * (b.d \div g) + b.n * (a.d \div g), (a.d \div g) * b.d)

\* a - b
RatSub(a, b) == RatAdd(a, [n |-> -b.n, d |-> b.d])

\* a * b: reduced crosswise before multiplying, which leaves the product in
\* lowest terms
RatMul(a, b) ==
    LET g1 == GCD(Abs(a.n), b.d)
        g2 == GCD(Abs(b.n), a.d)
    IN  [n |-> (a.n \div g1) * (b.n \div g2), d |-> (a.d \div g2) * (b.d \div g1)]

\* a / b for b # 0
RatDiv(a, b) ==
    RatMul(a, IF b.n < 0 THEN [n |-> -b.d, d |-> -b.n] ELSE [n |-> b.d, d |-> b.n])

\* a ** k for a whole number k >= 0
RECURSIVE IntPow(_, _)
IntPow(b, k) == IF k = 0 THEN 1 ELSE b * IntPow(b, k - 1)

\* a power of a fraction in lowest terms is in lowest terms
RatPow(a, k) == [n |-> IntPow(a.n, k), d |-> IntPow(a.d, k)]

\* a < b and a <= b
RatLt(a, b) ==
    LET g == GCD(a.d, b.d) IN a.n * (b.d \div g) < b.n * (a.d \div g)

RatLe(a, b) == ~RatLt(b, a)

\* round as "half away from zero" for x >= 0, floor(x + 1/2)
round_half_up(x) == (2 * x.n + x.d) \div (2 * x.d)

\* Python 3 round(x) with one argument: the nearest integer, a tie going to
\* the even neighbour
round(x) ==
    LET f == x.n \div x.d
        twice == 2 * (x.n - f * x.d)
    IN  IF twice < x.d THEN f
        ELSE IF twice > x.d THEN f + 1
        ELSE IF f % 2 = 0 THEN f ELSE f + 1

----------------------------------------------------------------------------
(* Bounds of the model.                                                    *)

\* a bond with a coupon is valued only while years * frequency stays within
\* MaxPeriods, which keeps the exact compounded value inside TLC's integers
MaxPeriods == 3

\* largest number of sweep points the engine specification evaluates
MaxPoints == 21

----------------------------------------------------------------------------
(* Inputs.                                                                 *)

Unassigned == "unassigned"

\* key of the frequency column of a bond row
FreqKey == "Interest Payment Frequency"

Bond(coupon, label) == ("Coupon" :> coupon) @@ (FreqKey :> label)

\* rows of the uploaded inventory: each recognised label, with and without a
\* coupon, and a label the map does not know
Bonds ==
    { Bond(0, "Monthly"), Bond(0, "Quarterly"), Bond(0, "Semi-Annual"),
      Bond(0, "Annual"), Bond(8, "Annual"), Bond(8, "Semi-Annual"),
      Bond(8, "Quarterly"), Bond(8, "Weekly") }

\* "Amount to Invest (INR)": whole rupees, at least min_value
AmountMin == 10000
AmountDefault == 1000000
AmountChoices == {AmountMin, 200000, AmountDefault}

\* "Current USDINR Rate" and "Expected Exit USDINR Rate": min_value, max_value
RateMin == Rat(70, 1)
RateMax == Rat(100, 1)
RateDefault == Rat(85, 1)
RateChoices ==
    {Rat(76, 1), Rat(80, 1), RateDefault, Rat(952, 10), Rat(953, 10), RateMax}
ExitChoices == {Rat(72, 1), Rat(80, 1), RateDefault}

\* "Investment Horizon (Years)" and its default, the entry at index 2
PeriodChoices == 1 .. 5
PeriodDefault == 3

----------------------------------------------------------------------------
(* The calculation of main().                                              *)

\* months per period in place of periods per year
frequency_map_months ==
    ("Monthly" :> 1) @@ ("Quarterly" :> 3) @@ ("Semi-Annual" :> 6) @@ ("Annual" :> 12)

frequency_map ==
    ("Monthly" :> 12) @@ ("Quarterly" :> 4) @@ ("Semi-Annual" :> 2) @@ ("Annual" :> 1)

\* dict.get / Series.get: the value under key, default when key is absent
Get(d, key, default) == IF key \in DOMAIN d THEN d[key] ELSE default

Frequency(bond) == Get(frequency_map, Get(bond, FreqKey, "Annual"), 1)

CouponRate(bond) == Rat(bond["Coupon"], 100)

\* the growth factor without its "1 +"
calculate_returns_no_one(amount, coupon_rate, freq, years) ==
    LET periods == years * freq
        periodic_rate == RatDiv(coupon_rate, RatInt(freq))
    IN  RatMul(RatInt(amount), RatPow(periodic_rate, periods))

calculate_returns(amount, coupon_rate, freq, years) ==
    LET periods == years * freq
        periodic_rate == RatDiv(coupon_rate, RatInt(freq))
    IN  RatMul(RatInt(amount), RatPow(RatAdd(RatInt(1), periodic_rate), periods))

contract_size == 1000

\* int() in place of round(): the quotient truncated
RequiredContracts_int(usd, size) == RatDiv(usd, RatInt(size)).n \div RatDiv(usd, RatInt(size)).d

\* contracts for a USD amount: round(investment_usd / contract_size)
RequiredContracts(usd, size) == round(RatDiv(usd, RatInt(size)))

\* a short position: entry - exit
FuturesPl_short(exit, entry, size, contracts) ==
    RatMul(RatMul(RatSub(entry, exit), RatInt(size)), RatInt(contracts))

\* the exit rate level in place of the rate change
FuturesPl_level(exit, entry, size, contracts) ==
    RatMul(RatMul(exit, RatInt(size)), RatInt(contracts))

\* P&L of the long futures position in INR
FuturesPl(exit, entry, size, contracts) ==
    RatMul(RatMul(RatSub(exit, entry), RatInt(size)), RatInt(contracts))

NetInr(fv, pl) == RatAdd(fv, pl)

NetUsd(net, exit) == RatDiv(net, exit)

UnhedgedUsd(fv, exit) == RatDiv(fv, exit)

\* linspace with endpoint=False: step = (stop - start) / num
linspace_open(start, stop, num) ==
    LET step == RatDiv(RatSub(stop, start), RatInt(num))
    IN  [i \in 1 .. num |-> RatAdd(start, RatMul(RatInt(i - 1), step))]

\* numpy.linspace(start, stop, num): num points from start to stop inclusive,
\* start + i * step with step = (stop - start) / (num - 1); a single point
\* is start itself
linspace(start, stop, num) ==
    IF num = 1 THEN << start >>
    ELSE LET step == RatDiv(RatSub(stop, start), RatInt(num - 1))
         IN  [i \in 1 .. num |-> RatAdd(start, RatMul(RatInt(i - 1), step))]

NumPoints == 20

\* the band of the hedge effectiveness chart: 80% to 120% of the entry rate
BandLow(rate) == RatMul(rate, Rat(8, 10))
BandHigh(rate) == RatMul(rate, Rat(12, 10))

RateChanges(rate, num) == linspace(BandLow(rate), BandHigh(rate), num)

UnhedgedValues(fv, rates) == [i \in DOMAIN rates |-> RatDiv(fv, rates[i])]

\* the hedged curve converted at the entry rate
HedgedValue_entry(fv, r, rate, size, contracts) ==
    RatDiv(RatAdd(fv, RatMul(RatMul(RatSub(r, rate), RatInt(size)), RatInt(contracts))), rate)

\* one point of the hedged curve
HedgedValue(fv, r, rate, size, contracts) ==
    RatDiv(RatAdd(fv, RatMul(RatMul(RatSub(r, rate), RatInt(size)), RatInt(contracts))), r)

HedgedValues(fv, rates, rate, size, contracts) ==
    [i \in DOMAIN rates |-> HedgedValue(fv, rates[i], rate, size, contracts)]

\* default of the exit rate widget: value = usdinr_rate * 1.05
ExitDefault(rate) == RatMul(rate, Rat(105, 100))

\* st.number_input raises StreamlitAPIException for a default value outside
\* [min_value, max_value]
NumberInputAccepts(value) == RatLe(RateMin, value) /\ RatLe(value, RateMax)

----------------------------------------------------------------------------
(* State.                                                                  *)

VARIABLES
    selected_bond,        \* row of the selected ISIN
    investment_amount,    \* widget "Amount to Invest (INR)"
    usdinr_rate,          \* widget "Current USDINR Rate"
    investment_period,    \* widget "Investment Horizon (Years)"
    exit_usdinr_rate,     \* widget "Expected Exit USDINR Rate"
    outcome,              \* how the last run of main() ended
    frequency, future_value, investment_usd, unhedged_usd_value,
    required_contracts, futures_pl, net_inr, net_usd,
    rate_changes, unhedged_values, hedged_values,
    call                  \* last direct evaluation of an engine expression

inputs == << selected_bond, investment_amount, usdinr_rate, investment_period >>

outputs ==
    << exit_usdinr_rate, outcome, frequency, future_value, investment_usd,
       unhedged_usd_value, required_contracts, futures_pl, net_inr, net_usd,
       rate_changes, unhedged_values, hedged_values >>

vars == << inputs, outputs, call >>

NoCall == [fn |-> "none"]

\* bound of the model, not of the code: the exact value of a bond with a
\* coupon stays inside TLC's integers
Representable(bond, years) ==
    bond["Coupon"] = 0 \/ years * Frequency(bond) <= MaxPeriods

\* One run of main() from the investment parameters on, with the inputs as
\* given; exit is the value the exit rate widget holds if it is rendered.
Run(bond, amount, rate, years, exit) ==
    IF ~NumberInputAccepts(ExitDefault(rate))
    THEN /\ outcome' = "StreamlitAPIException"
         /\ exit_usdinr_rate' = Unassigned
         /\ frequency' = Unassigned
         /\ future_value' = Unassigned
         /\ investment_usd' = Unassigned
         /\ unhedged_usd_value' = Unassigned
         /\ required_contracts' = Unassigned
         /\ futures_pl' = Unassigned
         /\ net_inr' = Unassigned
         /\ net_usd' = Unassigned
         /\ rate_changes' = Unassigned
         /\ unhedged_values' = Unassigned
         /\ hedged_values' = Unassigned
    ELSE LET freq == Frequency(bond)
             fv == calculate_returns(amount, CouponRate(bond), freq, years)
             usd == RatDiv(RatInt(amount), rate)
             contracts == RequiredContracts(usd, contract_size)
             pl == FuturesPl(exit, rate, contract_size, contracts)
             net == NetInr(fv, pl)
             rates == RateChanges(rate, NumPoints)
         IN  /\ outcome' = "completed"
             /\ exit_usdinr_rate' = exit
             /\ frequency' = freq
             /\ future_value' = fv
             /\ investment_usd' = usd
             /\ unhedged_usd_value' = UnhedgedUsd(fv, exit)
             /\ required_contracts' = contracts
             /\ futures_pl' = pl
             /\ net_inr' = net
             /\ net_usd' = NetUsd(net, exit)
             /\ rate_changes' = rates
             /\ unhedged_values' = UnhedgedValues(fv, rates)
             /\ hedged_values' = HedgedValues(fv, rates, rate, contract_size, contracts)

\* the exit rate widget keeps its value across runs while its default is the
\* same; it is absent after a failed run and then starts from its default
ExitWidget == IF outcome = "completed" THEN exit_usdinr_rate ELSE ExitDefault(usdinr_rate)

----------------------------------------------------------------------------
(* The dashboard session: the first run after the upload, then one re-run   *)
(* of main() per widget change.                                            *)

Init ==
    /\ selected_bond \in {b \in Bonds : Representable(b, PeriodDefault)}
    /\ investment_amount = AmountDefault
    /\ usdinr_rate = RateDefault
    /\ investment_period = PeriodDefault
    /\ exit_usdinr_rate = ExitDefault(RateDefault)
    /\ outcome = "completed"
    /\ frequency = Frequency(selected_bond)
    /\ future_value = calculate_returns(AmountDefault, CouponRate(selected_bond),
                                        Frequency(selected_bond), PeriodDefault)
    /\ investment_usd = RatDiv(RatInt(AmountDefault), RateDefault)
    /\ unhedged_usd_value = UnhedgedUsd(future_value, exit_usdinr_rate)
    /\ required_contracts = RequiredContracts(investment_usd, contract_size)
    /\ futures_pl = FuturesPl(exit_usdinr_rate, RateDefault, contract_size, required_contracts)
    /\ net_inr = NetInr(future_value, futures_pl)
    /\ net_usd = NetUsd(net_inr, exit_usdinr_rate)
    /\ rate_changes = RateChanges(RateDefault, NumPoints)
    /\ unhedged_values = UnhedgedValues(future_value, rate_changes)
    /\ hedged_values = HedgedValues(future_value, rate_changes, RateDefault,
                                    contract_size, required_contracts)
    /\ call = NoCall

\* st.selectbox("Select Bond ISIN")
SelectBond(b) ==
    /\ b # selected_bond
    /\ Representable(b, investment_period)
    /\ selected_bond' = b
    /\ UNCHANGED << investment_amount, usdinr_rate, investment_period, call >>
    /\ Run(b, investment_amount, usdinr_rate, investment_period, ExitWidget)

\* st.number_input("Amount to Invest (INR)")
SetInvestmentAmount(a) ==
    /\ a # investment_amount
    /\ investment_amount' = a
    /\ UNCHANGED << selected_bond, usdinr_rate, investment_period, call >>
    /\ Run(selected_bond, a, usdinr_rate, investment_period, ExitWidget)

\* st.number_input("Current USDINR Rate"): the exit rate widget is built with
\* a new default and starts from it
SetUsdinrRate(r) ==
    /\ r # usdinr_rate
    /\ usdinr_rate' = r
    /\ UNCHANGED << selected_bond, investment_amount, investment_period, call >>
    /\ Run(selected_bond, investment_amount, r, investment_period, ExitDefault(r))

\* st.selectbox("Investment Horizon (Years)")
SetInvestmentPeriod(y) ==
    /\ y # investment_period
    /\ Representable(selected_bond, y)
    /\ investment_period' = y
    /\ UNCHANGED << selected_bond, investment_amount, usdinr_rate, call >>
    /\ Run(selected_bond, investment_amount, usdinr_rate, y, ExitWidget)

\* st.number_input("Expected Exit USDINR Rate"), rendered only when its
\* default was accepted
SetExitRate(x) ==
    /\ outcome = "completed"
    /\ x # exit_usdinr_rate
    /\ UNCHANGED << inputs, call >>
    /\ Run(selected_bond, investment_amount, usdinr_rate, investment_period, x)

Next ==
    \/ \E b \in Bonds : SelectBond(b)
    \/ \E a \in AmountChoices : SetInvestmentAmount(a)
    \/ \E r \in RateChoices : SetUsdinrRate(r)
    \/ \E y \in PeriodChoices : SetInvestmentPeriod(y)
    \/ \E x \in ExitChoices : SetExitRate(x)

Spec == Init /\ [][Next]_vars

----------------------------------------------------------------------------
(* The engine expressions of main() evaluated directly, on arguments the    *)
(* widgets of the dashboard would not let through.                          *)

\* a row with an empty frequency cell (NaN), and a row of an inventory that
\* has no frequency column
BondWithoutFrequency == "Coupon" :> 8

EngineBonds == Bonds \cup {Bond(8, "nan"), BondWithoutFrequency}

\* USD amounts: ties and non-ties, positive, zero and negative
EngineAmounts ==
    { RatInt(k * 500) : k \in -27 .. 27 } \cup { RatInt(11760), Rat(1176471, 100) }

EngineSizes == {-contract_size, 0, contract_size}

NoLabel == "<absent>"

CallPeriodsPerYear(bond) ==
    /\ call' = [fn |-> "periods_per_year", label |-> Get(bond, FreqKey, NoLabel),
                result |-> Frequency(bond)]
    /\ UNCHANGED << inputs, outputs >>

\* round(investment_usd / contract_size); Python raises ZeroDivisionError
\* on a zero divisor
CallContractsNeeded(usd, size) ==
    /\ call' = [fn |-> "contracts_needed", usd |-> usd, size |-> size,
                error |-> IF size = 0 THEN "ZeroDivisionError" ELSE "none",
                result |-> IF size = 0 THEN 0 ELSE RequiredContracts(usd, size)]
    /\ UNCHANGED << inputs, outputs >>

CallSweep(rate, num) ==
    /\ call' = [fn |-> "sweep", rate |-> rate, num |-> num,
                result |-> RateChanges(rate, num)]
    /\ UNCHANGED << inputs, outputs >>

NextEngine ==
    \/ \E b \in EngineBonds : CallPeriodsPerYear(b)
    \/ \E usd \in EngineAmounts, size \in EngineSizes : CallContractsNeeded(usd, size)
    \/ \E rate \in RateChoices, num \in 2 .. MaxPoints : CallSweep(rate, num)

InitEngine == Init /\ selected_bond = Bond(0, "Annual")

SpecEngine == InitEngine /\ [][NextEngine]_vars

----------------------------------------------------------------------------
(* Properties.                                                             *)

Zero == RatInt(0)

RatAbs(a) == [n |-> Abs(a.n), d |-> a.d]

\* the quotient main() rounds, and twice its distance to the contract count
Quotient == RatDiv(investment_usd, RatInt(contract_size))
TwiceDistance == RatAbs(RatSub(RatInt(2 * required_contracts), RatMul(RatInt(2), Quotient)))
IsNearest == RatLe(TwiceDistance, RatInt(1))
IsTie == TwiceDistance = RatInt(1)

\* C1 as stated: the contract count is the integer nearest to
\* investment_usd / contract_size, and on an exact half it is the neighbour
\* farther from zero (2500 / 1000 gives 3, 12500 / 1000 gives 13).
C1_RoundsHalfAwayFromZero ==
    outcome = "completed" =>
        /\ IsNearest
        /\ IsTie => RatLt(RatAbs(Quotient), RatInt(Abs(required_contracts)))

\* C1 amended: the contract count is the integer nearest to
\* investment_usd / contract_size, and on an exact half it is the even
\* neighbour (2500 / 1000 gives 2, 12500 / 1000 gives 12).
C1_RoundsHalfToEven ==
    outcome = "completed" =>
        /\ IsNearest
        /\ IsTie => required_contracts % 2 = 0
        /\ investment_usd = RatInt(2500) => required_contracts = 2
        /\ investment_usd = RatInt(12500) => required_contracts = 12
        /\ RequiredContracts(RatInt(11760), contract_size) = 12

C1_Witness ==
    /\ outcome = "completed"
    /\ investment_usd = RatInt(12500)
    /\ IsTie
    /\ required_contracts = 12

\* C2: hedge neutrality: when the exit rate equals the entry rate the futures
\* P&L is 0 and the hedged USD value equals the unhedged USD value, whatever
\* the future value and the contract count.
C2_HedgeNeutrality ==
    (outcome = "completed" /\ exit_usdinr_rate = usdinr_rate) =>
        /\ futures_pl = Zero
        /\ net_inr = future_value
        /\ net_usd = unhedged_usd_value

C2_Witness ==
    /\ outcome = "completed"
    /\ exit_usdinr_rate = usdinr_rate
    /\ required_contracts = 12
    /\ selected_bond["Coupon"] = 8
    /\ net_usd = unhedged_usd_value

\* C3: hedge sign: the position is long, so with an exit rate above the entry
\* rate and at least one contract the futures P&L is strictly positive, and
\* the hedged USD value exceeds the unhedged USD value.
C3_HedgeSign ==
    (outcome = "completed" /\ RatLt(usdinr_rate, exit_usdinr_rate) /\ required_contracts > 0) =>
        /\ RatLt(Zero, futures_pl)
        /\ RatLt(unhedged_usd_value, net_usd)

C3_Witness ==
    /\ outcome = "completed"
    /\ RatLt(usdinr_rate, exit_usdinr_rate)
    /\ required_contracts = 2
    /\ RatLt(Zero, futures_pl)

Recognised == {"Monthly", "Quarterly", "Semi-Annual", "Annual"}

\* the points of a sweep are strictly increasing and evenly spaced
Increasing(rs) == \A i \in 1 .. Len(rs) - 1 : RatLt(rs[i], rs[i + 1])
EvenlySpaced(rs) ==
    \A i \in 1 .. Len(rs) - 2 : RatSub(rs[i + 1], rs[i]) = RatSub(rs[i + 2], rs[i + 1])

\* C4: sweep invariant: the sweep over [0.8 x entry, 1.2 x entry] has exactly
\* N exit rates, from the lower to the upper end of the band, strictly
\* increasing and evenly spaced, and for odd N its middle point is the entry
\* rate. Checked for every N from 2 to MaxPoints, the dashboard's own sweep
\* of NumPoints included.
C4_SweepInvariant ==
    /\ call.fn = "sweep" =>
        /\ Len(call.result) = call.num
        /\ call.result[1] = RatMul(call.rate, Rat(4, 5))
        /\ call.result[call.num] = RatMul(call.rate, Rat(6, 5))
        /\ Increasing(call.result)
        /\ EvenlySpaced(call.result)
        /\ call.num % 2 = 1 => call.result[(call.num + 1) \div 2] = call.rate
    /\ outcome = "completed" =>
        /\ Len(rate_changes) = NumPoints
        /\ Increasing(rate_changes)
        /\ EvenlySpaced(rate_changes)

C4_Witness ==
    /\ call.fn = "sweep"
    /\ call.num = 21
    /\ call.rate = RateDefault
    /\ call.result[11] = RateDefault
    /\ RatLt(call.result[10], call.result[11])

\* C5: the frequency label Monthly maps to 12, Quarterly to 4, Semi-Annual
\* to 2 and Annual to 1; any other label, an empty cell and a missing label
\* map to 1, and the lookup never fails.
C5_PeriodsPerYear ==
    call.fn = "periods_per_year" =>
        /\ call.label = "Monthly" => call.result = 12
        /\ call.label = "Quarterly" => call.result = 4
        /\ call.label = "Semi-Annual" => call.result = 2
        /\ call.label = "Annual" => call.result = 1
        /\ call.label \notin Recognised => call.result = 1

C5_Witness ==
    /\ call.fn = "periods_per_year"
    /\ call.label = NoLabel
    /\ call.result = 1

\* C6: zero coupon means no growth: for a bond with coupon 0 the future value
\* equals the amount invested, for every frequency and every horizon.
C6_ZeroCouponNoGrowth ==
    (outcome = "completed" /\ selected_bond["Coupon"] = 0) =>
        future_value = RatInt(investment_amount)

C6_Witness ==
    /\ outcome = "completed"
    /\ selected_bond["Coupon"] = 0
    /\ frequency = 12
    /\ investment_period = 5
    /\ investment_amount = 200000
    /\ future_value = RatInt(200000)

C8_Scenario ==
    /\ investment_amount = 1000000
    /\ usdinr_rate = Rat(85, 1)
    /\ selected_bond = Bond(8, "Annual")
    /\ investment_period = 1
    /\ outcome = "completed"
    /\ exit_usdinr_rate = Rat(8925, 100)

C8_EndToEnd ==
    C8_Scenario =>
        /\ future_value = RatInt(1080000)
        /\ required_contracts = 12
        /\ futures_pl = RatInt(51000)
        /\ net_inr = RatInt(1131000)
        /\ RatLt(unhedged_usd_value, net_usd)

C8_Witness == C8_Scenario /\ net_inr = RatInt(1131000)

\* the single-point comparison (Operation A) at exit rate r
SinglePointHedged(r) ==
    NetUsd(NetInr(future_value,
                  FuturesPl(r, usdinr_rate, contract_size, required_contracts)), r)
SinglePointUnhedged(r) == UnhedgedUsd(future_value, r)

\* C9: the sweep agrees with the single-point comparison: at every swept exit
\* rate r the hedged and the unhedged value of the sweep are the values the
\* single-point comparison gives for exit rate r, and when the chosen exit
\* rate is a point of the sweep the two displayed results coincide.
C9_SweepAgreesWithSinglePoint ==
    outcome = "completed" =>
        \A i \in 1 .. Len(rate_changes) :
            /\ hedged_values[i] = SinglePointHedged(rate_changes[i])
            /\ unhedged_values[i] = SinglePointUnhedged(rate_changes[i])
            /\ rate_changes[i] = exit_usdinr_rate =>
                /\ hedged_values[i] = net_usd
                /\ unhedged_values[i] = unhedged_usd_value

C9_Witness ==
    /\ outcome = "completed"
    /\ required_contracts = 13
    /\ exit_usdinr_rate = Rat(72, 1)
    /\ rate_changes[8] = exit_usdinr_rate
    /\ hedged_values[8] = net_usd
    /\ hedged_values[8] # unhedged_values[8]

\* C10 as stated: for every accepted entry rate the exit rate default,
\* entry rate x 1.05, lies within 70.0 .. 100.0, and the calculation
\* completes.
C10_DefaultExitInRange ==
    /\ RatLe(RateMin, ExitDefault(usdinr_rate))
    /\ RatLe(ExitDefault(usdinr_rate), RateMax)
    /\ outcome = "completed"

====
